---- MODULE Spec2Model ----
\* Model of vanity-pubky (src/src/main.rs): prefix validation, thread-count
\* parsing, the shared attempt counter and found flag, the worker loop, the
\* join loop and the final report.
\*
\* Text is a sequence of one-character strings.  The two atomics are single
\* cells with one total modification order each; every atomic operation of
\* the source is one step of the thread that performs it.
EXTENDS Integers, Sequences, FiniteSets, TLC

\* ------------------------------------------------------------------ bounds

\* hardware parallelism reported by num_cpus::get()
NumCpus == 1
\* longest raw prefix argument explored by the validation specification
MaxRawLen == 3
\* keypairs the provider hands to each thread in a short run
MaxAttempts == 3
\* keypairs the provider hands to thread 0 in a long run (more than one batch)
MaxLongAttempts == 1001
\* keypairs the provider hands to every other thread in a long run
MaxPeerAttempts == 1

\* ------------------------------------------------------- program constants

\* batch published to the shared counter: local_attempts % 1000 (line 156)
BATCH_SIZE == 1000
\* cadence of the progress line: local_attempts % 10000 (line 160)
REPORT_EVERY == 10000
\* thread that prints progress: thread_id == 0 (line 160)
REPORT_THREAD == 0
\* length of a secret key in bytes: [u8; 32] (line 27)
SECRET_LEN == 32

\* --------------------------------------------------------------- characters

UpperChars == << "A", "B", "C", "D", "E", "F", "G", "H", "I", "J", "K", "L", "M",
                 "N", "O", "P", "Q", "R", "S", "T", "U", "V", "W", "X", "Y", "Z" >>
LowerChars == << "a", "b", "c", "d", "e", "f", "g", "h", "i", "j", "k", "l", "m",
                 "n", "o", "p", "q", "r", "s", "t", "u", "v", "w", "x", "y", "z" >>

\* U+212A KELVIN SIGN: not ASCII, Unicode lowercase is "k"
Kelvin == "U+212A"

\* char::to_ascii_lowercase: only A-Z change
ToAsciiLowercase(c) ==
    IF \E i \in 1..26 : UpperChars[i] = c
    THEN LowerChars[CHOOSE i \in 1..26 : UpperChars[i] = c]
    ELSE c

\* char-wise str::to_lowercase on the characters of the model: A-Z and the
\* non-ASCII capitals (here the Kelvin sign) change
CharToLowercase(c) == IF c = Kelvin THEN "k" ELSE ToAsciiLowercase(c)

ToLowercase(s) == [i \in 1..Len(s) |-> CharToLowercase(s[i])]

\* char::is_whitespace on the characters of the model
IsWhitespace(c) == c \in {" ", "\t"}

\* a slip: one of the four excluded characters left in the list
IsValidZbase32CharWithV(c) ==
    c \in { "y", "b", "n", "d", "r", "f", "g", "8", "e", "j", "k",
            "m", "c", "p", "q", "x", "o", "t", "1", "u", "w", "i",
            "s", "z", "a", "3", "4", "5", "h", "7", "6", "9", "v" }

\* is_valid_zbase32_char: the matches! arms, in source order
IsValidZbase32Char(c) ==
    c \in { "y", "b", "n", "d", "r", "f", "g", "8", "e", "j", "k",
            "m", "c", "p", "q", "x", "o", "t", "1", "u", "w", "i",
            "s", "z", "a", "3", "4", "5", "h", "7", "6", "9" }

\* ------------------------------------------------------------------ strings

RECURSIVE TrimStart(_)
TrimStart(s) ==
    IF s # << >> /\ IsWhitespace(Head(s)) THEN TrimStart(Tail(s)) ELSE s

RECURSIVE TrimEnd(_)
TrimEnd(s) ==
    IF s # << >> /\ IsWhitespace(s[Len(s)])
    THEN TrimEnd(SubSeq(s, 1, Len(s) - 1))
    ELSE s

\* a slip: the end of the kept range is one character short
TrimDropsLast(s) ==
    LET t == TrimEnd(TrimStart(s))
    IN  IF t = << >> THEN t ELSE SubSeq(t, 1, Len(t) - 1)

\* str::trim
Trim(s) == TrimEnd(TrimStart(s))

\* str::contains(' ')
ContainsSpace(s) == \E i \in 1..Len(s) : s[i] = " "

\* .chars().filter(|&c| !is_valid_zbase32_char(c.to_ascii_lowercase())).collect():
\* the rejected characters, as written, in input order
RECURSIVE InvalidChars(_)
InvalidChars(s) ==
    IF s = << >> THEN << >>
    ELSE IF ~IsValidZbase32Char(ToAsciiLowercase(Head(s)))
         THEN << Head(s) >> \o InvalidChars(Tail(s))
         ELSE InvalidChars(Tail(s))

\* str::starts_with
StartsWith(s, p) == Len(p) =< Len(s) /\ SubSeq(s, 1, Len(p)) = p

\* every text of length at most n over the characters cs
RECURSIVE Texts(_, _)
Texts(cs, n) ==
    IF n = 0 THEN { << >> }
    ELSE LET shorter == Texts(cs, n - 1)
         IN  shorter \cup { Append(t, c) : t \in shorter, c \in cs }

\* --------------------------------------------------------- prefix validation

\* Lines 74-102 as a function of the raw argument.  kind names the branch:
\*   "ContainsWhitespace"  "Error: Vanity name cannot contain spaces."   exit(1)
\*   "EmptyInput"          "Error: Vanity name cannot be empty."         exit(1)
\*   "InvalidCharacters"   "... contains invalid characters: {chars}"    exit(1)
\*   "Ok"                  desired_prefix = trimmed.to_lowercase()
ValidatePrefix(raw) ==
    LET trimmed_vanity_name == Trim(raw)
        invalid_chars == InvalidChars(trimmed_vanity_name)
    IN  IF ContainsSpace(trimmed_vanity_name)
        THEN [kind |-> "ContainsWhitespace", chars |-> << >>, prefix |-> << >>]
        ELSE IF trimmed_vanity_name = << >>
        THEN [kind |-> "EmptyInput", chars |-> << >>, prefix |-> << >>]
        ELSE IF invalid_chars # << >>
        THEN [kind |-> "InvalidCharacters", chars |-> invalid_chars, prefix |-> << >>]
        ELSE [kind |-> "Ok", chars |-> << >>,
              prefix |-> ToLowercase(trimmed_vanity_name)]

\* ------------------------------------------------------------- thread count

Digits == << "0", "1", "2", "3", "4", "5", "6", "7", "8", "9" >>
IsDigit(c) == \E i \in 1..10 : Digits[i] = c
DigitValue(c) == (CHOOSE i \in 1..10 : Digits[i] = c) - 1

RECURSIVE DecimalValue(_)
DecimalValue(s) ==
    IF s = << >> THEN 0
    ELSE 10 * DecimalValue(SubSeq(s, 1, Len(s) - 1)) + DigitValue(s[Len(s)])

\* str::parse::<usize>: an optional "+", then one or more decimal digits
\* (the texts of the model are far below usize::MAX)
ParseUsize(t) ==
    LET digits == IF t # << >> /\ Head(t) = "+" THEN Tail(t) ELSE t
    IN  IF digits # << >> /\ \A i \in 1..Len(digits) : IsDigit(digits[i])
        THEN [ok |-> TRUE, value |-> DecimalValue(digits)]
        ELSE [ok |-> FALSE, value |-> 0]

\* an absent --threads option
Absent == [present |-> FALSE, text |-> << >>]
Given(t) == [present |-> TRUE, text |-> t]

\* lines 110-116: .map(|t| t.parse().unwrap_or_else(|_| num_cpus::get()))
\*                .unwrap_or_else(|| num_cpus::get())
NumThreads(arg) ==
    IF arg.present
    THEN IF ParseUsize(arg.text).ok THEN ParseUsize(arg.text).value ELSE NumCpus
    ELSE NumCpus

\* the --threads values explored
ThreadArgs ==
    { Absent, Given(<< "0" >>), Given(<< "1" >>), Given(<< "2" >>),
      Given(<< "-", "1" >>), Given(<< "x" >>) }

\* the --passphrase values explored
PassphraseArgs == { Absent, Given(<< "p", "w" >>) }

\* the prefix arguments explored by the search specification: one of each
\* rejected kind and one accepted
SearchPrefixArgs ==
    { << >>, << " ", "\t" >>, << "y", " ", "y" >>, << "y", "V", "0" >>,
      << " ", "Y" >> }

\* the characters of the prefix arguments explored by the validation
\* specification
RawChars == { " ", "\t", "y", "Y", "b", "v", "V", "0", "l", "L", "2", Kelvin }

MaxThreadCount ==
    LET counts == { NumThreads(a) : a \in ThreadArgs }
    IN  CHOOSE n \in counts : \A m \in counts : m =< n

\* thread_id of every thread that can exist
ThreadIds == 0..(MaxThreadCount - 1)

\* --------------------------------------------------------- keypair provider

\* the keypairs Keypair::random() can return; 0 stands for "no keypair"
Keypairs == 1..3

\* keypair.public_key().to_string()
PublicKey(k) ==
    CASE k = 1 -> << "y", "b", "o" >>
      [] k = 2 -> << "Y", "y", "e" >>
      [] k = 3 -> << "b", "y", "y" >>

\* keypair.secret_key(): SECRET_LEN bytes
SecretKey(k) == [i \in 1..SECRET_LEN |-> (k * 89 + i * 7) % 256]

HexDigits == << "0", "1", "2", "3", "4", "5", "6", "7",
                "8", "9", "a", "b", "c", "d", "e", "f" >>

\* hex::encode: two lowercase hex digits per byte, high nibble first
RECURSIVE HexEncode(_)
HexEncode(bytes) ==
    IF bytes = << >> THEN << >>
    ELSE << HexDigits[(Head(bytes) \div 16) + 1], HexDigits[(Head(bytes) % 16) + 1] >>
         \o HexEncode(Tail(bytes))

\* get_secret_key_from_keypair
get_secret_key_from_keypair(k) == HexEncode(SecretKey(k))

\* recovery_file::create_recovery_file: an opaque blob that depends on both
save_recovery_file(k, passphrase) == [keypair |-> k, passphrase |-> passphrase]

\* Keypair::random() never fails and never runs dry; the model stops a thread
\* at the head of its loop once it has drawn its share.  A short run gives
\* every thread the same few keypairs, a long run lets thread 0 pass a batch.
ShortRun == [w \in ThreadIds |-> MaxAttempts]
LongRun == [w \in ThreadIds |-> IF w = 0 THEN MaxLongAttempts ELSE MaxPeerAttempts]
SampleLimits == { ShortRun, LongRun }

\* -------------------------------------------------------------------- state

VARIABLES
    raw_vanity_name,        \* the positional argument
    threads_arg,            \* the --threads option
    sample_limit,           \* keypairs the provider hands to each thread
    mainpc,                 \* position of main
    diag,                   \* kind and characters of the error printed, if any
    exit_code,              \* -1 while the process runs
    desired_prefix,
    num_threads,
    created,                \* the two Arcs of lines 131-132 exist
    attempts,               \* AtomicUsize
    found,                  \* AtomicBool
    handles,                \* thread ids, in push order
    joined,                 \* handles already joined
    wpc,                    \* position of each thread
    local_attempts,
    keypair,                \* the keypair a thread holds after a match
    ret,                    \* the value each thread returned
    last_progress,          \* total of the last "Still searching" line, -1 if none
    found_thread_attempts,
    result_pubkey,
    result_secret_key,
    found_keypair,
    total_attempts,
    report,                 \* what main printed about the search
    recovery_file,          \* the file on disk
    drawn,                  \* history: Keypair::random() calls per thread
    match_draws,            \* history: draws whose key matched the prefix
    flips,                  \* history: times found changed its value
    first_setter            \* history: thread whose store changed found, -1 if none

inputs == << raw_vanity_name, threads_arg, sample_limit >>
mainvars == << mainpc, diag, exit_code, desired_prefix, num_threads, created,
               handles, joined, found_thread_attempts, result_pubkey,
               result_secret_key, found_keypair, total_attempts, report,
               recovery_file >>
workervars == << wpc, local_attempts, keypair, ret, last_progress >>
history == << drawn, match_draws, flips, first_setter >>
vars == << inputs, mainvars, workervars, attempts, found, history >>

\* a thread that returned None
NoResult == [some |-> FALSE, pubky |-> << >>, secret_key_hex |-> << >>,
             keypair |-> 0, thread_attempts |-> 0]

NoFile == [written |-> FALSE, name |-> << >>, bytes |-> [keypair |-> 0, passphrase |-> << >>]]

NoReport == [kind |-> "none", total |-> 0, pubkey |-> << >>, secret_key |-> << >>]

InitWith(prefixes) ==
    /\ raw_vanity_name \in prefixes
    /\ threads_arg \in ThreadArgs
    /\ sample_limit \in SampleLimits
    /\ mainpc = "validate"
    /\ diag = [kind |-> "none", chars |-> << >>]
    /\ exit_code = -1
    /\ desired_prefix = << >>
    /\ num_threads = 0
    /\ created = FALSE
    /\ attempts = 0
    /\ found = FALSE
    /\ handles = << >>
    /\ joined = 0
    /\ wpc = [w \in ThreadIds |-> "unspawned"]
    /\ local_attempts = [w \in ThreadIds |-> 0]
    /\ keypair = [w \in ThreadIds |-> 0]
    /\ ret = [w \in ThreadIds |-> NoResult]
    /\ last_progress = -1
    /\ found_thread_attempts = 0
    /\ result_pubkey = << >>
    /\ result_secret_key = << >>
    /\ found_keypair = 0
    /\ total_attempts = 0
    /\ report = NoReport
    /\ recovery_file = NoFile
    /\ drawn = [w \in ThreadIds |-> 0]
    /\ match_draws = 0
    /\ flips = 0
    /\ first_setter = -1

Init == InitWith(SearchPrefixArgs)

\* --------------------------------------------------------------------- main

\* a slip: the error is printed but process::exit(1) is missing
ValidateNoExit ==
    /\ mainpc = "validate"
    /\ LET r == ValidatePrefix(raw_vanity_name)
       IN  /\ desired_prefix' = ToLowercase(Trim(raw_vanity_name))
           /\ diag' = IF r.kind = "Ok" THEN diag
                      ELSE [kind |-> r.kind, chars |-> r.chars]
    /\ mainpc' = "threads"
    /\ UNCHANGED << inputs, exit_code, num_threads, created, handles, joined,
                    found_thread_attempts, result_pubkey, result_secret_key,
                    found_keypair, total_attempts, report, recovery_file,
                    workervars, attempts, found, history >>

\* lines 74-102
Validate ==
    /\ mainpc = "validate"
    /\ LET r == ValidatePrefix(raw_vanity_name)
       IN  IF r.kind = "Ok"
           THEN /\ desired_prefix' = r.prefix
                /\ mainpc' = "threads"
                /\ UNCHANGED << diag, exit_code >>
           ELSE /\ diag' = [kind |-> r.kind, chars |-> r.chars]
                /\ exit_code' = 1
                /\ mainpc' = "exited"
                /\ UNCHANGED desired_prefix
    /\ UNCHANGED << inputs, num_threads, created, handles, joined,
                    found_thread_attempts, result_pubkey, result_secret_key,
                    found_keypair, total_attempts, report, recovery_file,
                    workervars, attempts, found, history >>

\* lines 110-128
ParseThreads ==
    /\ mainpc = "threads"
    /\ num_threads' = NumThreads(threads_arg)
    /\ diag' = IF threads_arg.present /\ ~ParseUsize(threads_arg.text).ok
               THEN [kind |-> "InvalidThreadCount", chars |-> << >>]
               ELSE diag
    /\ mainpc' = "shared"
    /\ UNCHANGED << inputs, exit_code, desired_prefix, created, handles, joined,
                    found_thread_attempts, result_pubkey, result_secret_key,
                    found_keypair, total_attempts, report, recovery_file,
                    workervars, attempts, found, history >>

\* lines 131-136
CreateShared ==
    /\ mainpc = "shared"
    /\ created' = TRUE
    /\ attempts' = 0
    /\ found' = FALSE
    /\ handles' = << >>
    /\ mainpc' = "spawn"
    /\ UNCHANGED << inputs, diag, exit_code, desired_prefix, num_threads, joined,
                    found_thread_attempts, result_pubkey, result_secret_key,
                    found_keypair, total_attempts, report, recovery_file,
                    workervars, history >>

\* lines 137-144, 183: one turn of the spawn loop
Spawn ==
    /\ mainpc = "spawn"
    /\ Len(handles) < num_threads
    /\ LET thread_id == Len(handles)
       IN  /\ wpc' = [wpc EXCEPT ![thread_id] = "loop"]
           /\ local_attempts' = [local_attempts EXCEPT ![thread_id] = 0]
           /\ handles' = Append(handles, thread_id)
    /\ UNCHANGED << inputs, mainpc, diag, exit_code, desired_prefix, num_threads,
                    created, joined, found_thread_attempts, result_pubkey,
                    result_secret_key, found_keypair, total_attempts, report,
                    recovery_file, keypair, ret, last_progress, attempts, found,
                    history >>

\* a slip: the spawn loop ends one turn early
SpawnDoneEarly ==
    /\ mainpc = "spawn"
    /\ Len(handles) + 1 >= num_threads
    /\ found_thread_attempts' = 0
    /\ result_pubkey' = << >>
    /\ result_secret_key' = << >>
    /\ found_keypair' = 0
    /\ joined' = 0
    /\ mainpc' = "join"
    /\ UNCHANGED << inputs, diag, exit_code, desired_prefix, num_threads, created,
                    handles, total_attempts, report, recovery_file, workervars,
                    attempts, found, history >>

\* lines 137, 187-190: the spawn loop ends, the result variables are set up
SpawnDone ==
    /\ mainpc = "spawn"
    /\ Len(handles) = num_threads
    /\ found_thread_attempts' = 0
    /\ result_pubkey' = << >>
    /\ result_secret_key' = << >>
    /\ found_keypair' = 0
    /\ joined' = 0
    /\ mainpc' = "join"
    /\ UNCHANGED << inputs, diag, exit_code, desired_prefix, num_threads, created,
                    handles, total_attempts, report, recovery_file, workervars,
                    attempts, found, history >>

\* a slip: the keys are kept from the first result, the rest from the last
JoinMixed ==
    /\ mainpc = "join"
    /\ joined < Len(handles)
    /\ LET w == handles[joined + 1]
       IN  /\ wpc[w] = "done"
           /\ IF ret[w].some
              THEN /\ result_pubkey' = IF result_pubkey = << >> THEN ret[w].pubky
                                       ELSE result_pubkey
                   /\ result_secret_key' = IF result_secret_key = << >>
                                           THEN ret[w].secret_key_hex
                                           ELSE result_secret_key
                   /\ found_keypair' = ret[w].keypair
                   /\ found_thread_attempts' = ret[w].thread_attempts
              ELSE UNCHANGED << result_pubkey, result_secret_key, found_keypair,
                                found_thread_attempts >>
    /\ joined' = joined + 1
    /\ UNCHANGED << inputs, mainpc, diag, exit_code, desired_prefix, num_threads,
                    created, handles, total_attempts, report, recovery_file,
                    workervars, attempts, found, history >>

\* lines 192-199: one turn of the join loop; join() returns when the thread ended
Join ==
    /\ mainpc = "join"
    /\ joined < Len(handles)
    /\ LET w == handles[joined + 1]
       IN  /\ wpc[w] = "done"
           /\ IF ret[w].some
              THEN /\ result_pubkey' = ret[w].pubky
                   /\ result_secret_key' = ret[w].secret_key_hex
                   /\ found_keypair' = ret[w].keypair
                   /\ found_thread_attempts' = ret[w].thread_attempts
              ELSE UNCHANGED << result_pubkey, result_secret_key, found_keypair,
                                found_thread_attempts >>
    /\ joined' = joined + 1
    /\ UNCHANGED << inputs, mainpc, diag, exit_code, desired_prefix, num_threads,
                    created, handles, total_attempts, report, recovery_file,
                    workervars, attempts, found, history >>

\* a slip: the join loop is left at the first result
TotalAfterFirstResult ==
    /\ mainpc = "join"
    /\ joined = Len(handles) \/ found_keypair # 0
    /\ total_attempts' = attempts + found_thread_attempts
    /\ mainpc' = "report"
    /\ UNCHANGED << inputs, diag, exit_code, desired_prefix, num_threads, created,
                    handles, joined, found_thread_attempts, result_pubkey,
                    result_secret_key, found_keypair, report, recovery_file,
                    workervars, attempts, found, history >>

\* lines 192, 202: the join loop ends, the counter is read
Total ==
    /\ mainpc = "join"
    /\ joined = Len(handles)
    /\ total_attempts' = attempts + found_thread_attempts
    /\ mainpc' = "report"
    /\ UNCHANGED << inputs, diag, exit_code, desired_prefix, num_threads, created,
                    handles, joined, found_thread_attempts, result_pubkey,
                    result_secret_key, found_keypair, report, recovery_file,
                    workervars, attempts, found, history >>

\* lines 205-211 and 233-235
Report ==
    /\ mainpc = "report"
    /\ IF found_keypair # 0
       THEN /\ report' = [kind |-> "found", total |-> total_attempts,
                          pubkey |-> result_pubkey,
                          secret_key |-> result_secret_key]
            /\ mainpc' = "save"
            /\ UNCHANGED exit_code
       ELSE /\ report' = [kind |-> "no_match", total |-> 0, pubkey |-> << >>,
                          secret_key |-> << >>]
            /\ mainpc' = "exited"
            /\ exit_code' = 0
    /\ UNCHANGED << inputs, diag, desired_prefix, num_threads, created, handles,
                    joined, found_thread_attempts, result_pubkey,
                    result_secret_key, found_keypair, total_attempts,
                    recovery_file, workervars, attempts, found, history >>

\* lines 119-123: .map(|s| s.as_str()).unwrap_or("password")
Passphrase(arg) ==
    IF arg.present THEN arg.text
    ELSE << "p", "a", "s", "s", "w", "o", "r", "d" >>

\* line 217
RecoveryFileName ==
    desired_prefix \o << "_", "p", "u", "b", "k", "y", "_", "r", "e", "c", "o",
                         "v", "e", "r", "y", ".", "p", "k", "a", "r", "r" >>

\* lines 214-232: File::create or write_all may fail; main returns either way.
\* The --passphrase option is immutable and nothing modelled before this step
\* depends on it, so its value is drawn here, where it is first used.
SaveRecovery ==
    /\ mainpc = "save"
    /\ \E io_ok \in BOOLEAN, passphrase_arg \in PassphraseArgs :
          recovery_file' =
              IF io_ok
              THEN [written |-> TRUE, name |-> RecoveryFileName,
                    bytes |-> save_recovery_file(found_keypair,
                                                 Passphrase(passphrase_arg))]
              ELSE recovery_file
    /\ mainpc' = "exited"
    /\ exit_code' = 0
    /\ UNCHANGED << inputs, diag, desired_prefix, num_threads, created, handles,
                    joined, found_thread_attempts, result_pubkey,
                    result_secret_key, found_keypair, total_attempts, report,
                    workervars, attempts, found, history >>

MainNext ==
    \/ Validate
    \/ ParseThreads
    \/ CreateShared
    \/ Spawn
    \/ SpawnDone
    \/ Join
    \/ Total
    \/ Report
    \/ SaveRecovery

\* ------------------------------------------------------------------ workers

\* a slip: the loop condition lost, the loop runs on whatever the flag says
LoadFoundIgnored(w) ==
    /\ wpc[w] = "loop"
    /\ local_attempts[w] < sample_limit[w]
    /\ wpc' = [wpc EXCEPT ![w] = "body"]
    /\ UNCHANGED << inputs, mainvars, local_attempts, keypair, ret, last_progress,
                    attempts, found, history >>

\* a slip: the flag is read on every other iteration only
LoadFoundStale(w) ==
    /\ wpc[w] = "loop"
    /\ IF found /\ local_attempts[w] % 2 = 0
       THEN /\ wpc' = [wpc EXCEPT ![w] = "done"]
            /\ ret' = [ret EXCEPT ![w] = NoResult]
       ELSE /\ local_attempts[w] < sample_limit[w]
            /\ wpc' = [wpc EXCEPT ![w] = "body"]
            /\ UNCHANGED ret
    /\ UNCHANGED << inputs, mainvars, local_attempts, keypair, last_progress,
                    attempts, found, history >>

\* line 146 (and 180): found_clone.load; a set flag ends the thread with None
LoadFound(w) ==
    /\ wpc[w] = "loop"
    /\ IF found
       THEN /\ wpc' = [wpc EXCEPT ![w] = "done"]
            /\ ret' = [ret EXCEPT ![w] = NoResult]
       ELSE /\ local_attempts[w] < sample_limit[w]
            /\ wpc' = [wpc EXCEPT ![w] = "body"]
            /\ UNCHANGED ret
    /\ UNCHANGED << inputs, mainvars, local_attempts, keypair, last_progress,
                    attempts, found, history >>

\* a slip: contains() where starts_with() is meant
MatchesAnywhere(k, prefix) ==
    \E i \in 1..Len(PublicKey(k)) :
        StartsWith(SubSeq(ToLowercase(PublicKey(k)), i, Len(PublicKey(k))), prefix)

\* line 167: lower_pubky.starts_with(&desired_prefix_clone)
Matches(k, prefix) == StartsWith(ToLowercase(PublicKey(k)), prefix)

\* a slip: every attempt is published, one at a time
PublishedEach(counter, la) == counter + 1

\* line 157: attempts_clone.fetch_add(1000), taken when local_attempts % 1000 == 0
Published(counter, la) ==
    IF la % BATCH_SIZE = 0 THEN counter + BATCH_SIZE ELSE counter

\* lines 148-167: draw a keypair, count it, publish a full batch, print
\* progress, test the prefix.  The load of line 161 reads the counter right
\* after this thread's own fetch_add.
Sample(w) ==
    /\ wpc[w] = "body"
    /\ \E k \in Keypairs :
          LET la == local_attempts[w] + 1
          IN  /\ local_attempts' = [local_attempts EXCEPT ![w] = la]
              /\ drawn' = [drawn EXCEPT ![w] = @ + 1]
              /\ attempts' = Published(attempts, la)
              /\ last_progress' =
                    IF la % BATCH_SIZE = 0 /\ w = REPORT_THREAD
                       /\ la % REPORT_EVERY = 0
                    THEN attempts'
                    ELSE last_progress
              /\ IF Matches(k, desired_prefix)
                 THEN /\ keypair' = [keypair EXCEPT ![w] = k]
                      /\ match_draws' = match_draws + 1
                      /\ wpc' = [wpc EXCEPT ![w] = "store"]
                 ELSE /\ wpc' = [wpc EXCEPT ![w] = "loop"]
                      /\ UNCHANGED << keypair, match_draws >>
    /\ UNCHANGED << inputs, mainvars, ret, found, flips, first_setter >>

\* a slip: the flag is flipped where it is meant to be set
StoreValueToggle(old) == ~old

\* line 169: found_clone.store(true)
StoreValue(old) == TRUE

\* lines 169-175: set the flag and return the keys
StoreFound(w) ==
    /\ wpc[w] = "store"
    /\ found' = StoreValue(found)
    /\ flips' = IF found' # found THEN flips + 1 ELSE flips
    /\ first_setter' = IF found' # found /\ first_setter = -1 THEN w
                       ELSE first_setter
    /\ ret' = [ret EXCEPT ![w] =
                  [some |-> TRUE,
                   pubky |-> PublicKey(keypair[w]),
                   secret_key_hex |-> get_secret_key_from_keypair(keypair[w]),
                   keypair |-> keypair[w],
                   thread_attempts |-> local_attempts[w]]]
    /\ wpc' = [wpc EXCEPT ![w] = "done"]
    /\ UNCHANGED << inputs, mainvars, local_attempts, keypair, last_progress,
                    attempts, drawn, match_draws >>

Worker(w) ==
    \/ LoadFound(w)
    \/ Sample(w)
    \/ StoreFound(w)

Next == MainNext \/ \E w \in ThreadIds : Worker(w)

Spec == Init /\ [][Next]_vars

\* every thread and main is scheduled by the operating system: a thread
\* that can take a step eventually takes it
Fairness == WF_vars(MainNext) /\ \A w \in ThreadIds : WF_vars(Worker(w))

\* the short runs, with fair scheduling
InitShort == Init /\ sample_limit = ShortRun
FairSpec == InitShort /\ [][Next]_vars /\ Fairness

\* the validation alone, over every text of the bounded alphabet
InitValidate ==
    /\ InitWith(Texts(RawChars, MaxRawLen))
    /\ threads_arg = Absent
    /\ sample_limit = ShortRun
SpecValidate == InitValidate /\ [][Validate]_vars

\* ------------------------------------------------------------------- claims

RECURSIVE SumOver(_, _)
SumOver(f, S) ==
    IF S = {} THEN 0
    ELSE LET x == CHOOSE x \in S : TRUE IN f[x] + SumOver(f, S \ {x})

\* threads that exist
Spawned == { w \in ThreadIds : wpc[w] # "unspawned" }
\* threads that returned Some(..)
Returned == { w \in ThreadIds : ret[w].some }
\* main is past the join loop of a search
SearchCompleted == mainpc \in {"report", "save"} \/ (mainpc = "exited" /\ exit_code = 0)
\* Keypair::random() calls of all threads together
TrueSamples == SumOver(drawn, ThreadIds)
\* the text p is a case-insensitive prefix of the key text
IsVanityOf(key, p) ==
    /\ Len(p) =< Len(key)
    /\ \A i \in 1..Len(p) : CharToLowercase(key[i]) = p[i]

\* C1: at most one worker returns a non-empty result, in every interleaving.
C1_AtMostOneResult == Cardinality(Returned) =< 1

\* C2: once all workers have joined, the reported total (shared counter plus
\* the winner's returned count) is the number of keypairs all workers drew.
C2_TotalIsTrueCount ==
    (SearchCompleted /\ num_threads >= 1) => total_attempts = TrueSamples

\* C3: a single worker stops at the first matching key, at position p of its
\* draws, draws nothing after it, and the reported attempt count is p.
C3_SingleWorkerCount ==
    (SearchCompleted /\ num_threads = 1) =>
        /\ match_draws = 1
        /\ ret[0].some /\ ret[0].thread_attempts = drawn[0]
        /\ report.kind = "found" => report.total = drawn[0]
        /\ total_attempts = drawn[0]

\* C4: with one or more workers and exactly one matching key drawn, the result
\* reported after the join is that key: it has the prefix, and it is not empty.
C4_ReportsTheMatch ==
    (SearchCompleted /\ num_threads >= 1 /\ match_draws = 1) =>
        /\ found_keypair # 0
        /\ \E w \in ThreadIds : keypair[w] = found_keypair
        /\ result_pubkey = PublicKey(found_keypair)
        /\ IsVanityOf(result_pubkey, desired_prefix)
        /\ report.kind \in {"none", "found"}
        /\ report.kind = "found" => report.pubkey = result_pubkey

\* C4 witness: two workers raced, several keys did not match, one did, and it
\* was reported
C4_Witness ==
    /\ SearchCompleted /\ num_threads = 2 /\ match_draws = 1
    /\ TrueSamples >= 3
    /\ report.kind = "found" /\ IsVanityOf(report.pubkey, desired_prefix)

\* the --threads text is a positive integer
IsPositiveInteger(t) ==
    /\ t # << >>
    /\ \A i \in 1..Len(t) : t[i] \in {"0", "1", "2", "3", "4", "5", "6", "7", "8", "9"}
    /\ \E i \in 1..Len(t) : t[i] # "0"

\* C5: a --threads value that is no positive integer (text, negative, 0) makes
\* the coordinator spawn as many workers as the hardware has threads, at
\* least one.
C5_FallbackToParallelism ==
    (/\ mainpc \in {"join", "report", "save"} \/ (mainpc = "exited" /\ exit_code = 0)
     /\ threads_arg.present
     /\ ~IsPositiveInteger(threads_arg.text)) =>
        /\ Len(handles) = NumCpus
        /\ Len(handles) >= 1

\* C6: in every completed search some worker has returned a match; "No
\* matching key found" is never printed.
C6_SomeWorkerMatched ==
    SearchCompleted => (Returned # {} /\ report.kind # "no_match")

\* C7: the found flag, once true, stays true under every step: it changes at
\* most once, from false to true.
C7_LatchSetOnce == [][found => found']_vars

\* C7 witness: two workers matched and both wrote the flag
C7_Witness == found /\ flips = 1 /\ Cardinality(Returned) = 2

\* C8: with fair scheduling, once a worker has drawn a matching key every
\* spawned worker terminates and main gets past the join loop.
C8_AllTerminate ==
    (match_draws > 0) ~>
        (/\ mainpc \in {"report", "save", "exited"}
         /\ Len(handles) = num_threads
         /\ \A w \in Spawned : wpc[w] = "done")

\* C8 witness: main is past the join, one worker matched and the other was
\* stopped by the flag after drawing keys of its own
C8_Witness ==
    /\ mainpc = "report" /\ num_threads = 2 /\ match_draws = 1
    /\ \E w \in Spawned : ~ret[w].some /\ wpc[w] = "done" /\ drawn[w] >= 1

\* the 32 symbols of the alphabet (the comment of line 11, the text of line 96)
Zbase32 == { "y", "b", "n", "d", "r", "f", "g", "8", "e", "j", "k", "m", "c",
             "p", "q", "x", "o", "t", "1", "u", "w", "i", "s", "z", "a", "3",
             "4", "5", "h", "7", "6", "9" }

\* raw[i..j] is raw without its leading and trailing whitespace
IsTrimRange(i, j, raw) ==
    /\ i - 1 =< j
    /\ \A n \in 1..(i - 1) : IsWhitespace(raw[n])
    /\ \A n \in (j + 1)..Len(raw) : IsWhitespace(raw[n])
    /\ i =< j => (~IsWhitespace(raw[i]) /\ ~IsWhitespace(raw[j]))

Offending(c) == ToAsciiLowercase(c) \notin Zbase32

\* the outcome the validation contract gives for the trimmed text t:
\* EmptyInput first, then ContainsWhitespace, then InvalidCharacters, then
\* success
ContractOfTrimmed(t) ==
    IF t = << >>
    THEN [kind |-> "EmptyInput", chars |-> << >>, prefix |-> << >>]
    ELSE IF \E i \in 2..(Len(t) - 1) : t[i] = " "
    THEN [kind |-> "ContainsWhitespace", chars |-> << >>, prefix |-> << >>]
    ELSE IF \E i \in 1..Len(t) : Offending(t[i])
    THEN [kind |-> "InvalidCharacters", chars |-> SelectSeq(t, Offending),
          prefix |-> << >>]
    ELSE [kind |-> "Ok", chars |-> << >>,
          prefix |-> [i \in 1..Len(t) |-> ToAsciiLowercase(t[i])]]

\* the outcome the validation contract gives for raw
Contract(raw) ==
    LET range == CHOOSE r \in (1..(Len(raw) + 1)) \X (0..Len(raw)) :
                     IsTrimRange(r[1], r[2], raw)
    IN  ContractOfTrimmed(SubSeq(raw, range[1], range[2]))

\* C9: validation gives EmptyInput when trimming leaves nothing, otherwise
\* ContainsWhitespace on an internal space, otherwise InvalidCharacters with
\* exactly the characters outside the alphabet in input order, otherwise the
\* trimmed, lowercased text.
C9_ValidationContract ==
    mainpc # "validate" =>
        LET want == Contract(raw_vanity_name)
        IN  IF want.kind = "Ok"
            THEN /\ desired_prefix = want.prefix
                 /\ diag.kind = "none"
                 /\ exit_code # 1
            ELSE /\ diag = [kind |-> want.kind, chars |-> want.chars]
                 /\ exit_code = 1

\* C9 witness: v, 0 and L rejected together, in input order, around an
\* accepted character
C9_Witness ==
    /\ mainpc = "exited"
    /\ diag.kind = "InvalidCharacters"
    /\ Len(diag.chars) = 2 /\ Len(Trim(raw_vanity_name)) = 3
    /\ diag.chars[1] \in {"v", "V"} /\ diag.chars[2] \in {"0", "L", "l", "2"}

\* C10: when validation fails the process has ended with exit code 1 and no
\* search state exists: no shared cell, no thread, no recovery file.  A
\* failure is an error printed by the validation, or an argument the contract
\* rejects seen right after the validation step (every later step of main
\* comes after that one).
C10_FailsBeforeSearch ==
    (/\ mainpc # "validate"
     /\ \/ diag.kind \in {"EmptyInput", "ContainsWhitespace", "InvalidCharacters"}
        \/ mainpc = "threads" /\ Contract(raw_vanity_name).kind # "Ok") =>
        /\ mainpc = "exited" /\ exit_code = 1
        /\ ~created /\ attempts = 0 /\ ~found
        /\ handles = << >> /\ Spawned = {}
        /\ TrueSamples = 0
        /\ recovery_file = NoFile /\ report = NoReport

\* C10 witness: a prefix with invalid characters ended the process
C10_Witness ==
    /\ mainpc = "exited" /\ exit_code = 1
    /\ diag.kind = "InvalidCharacters" /\ ~created

\* C11: validation is idempotent: an accepted prefix, validated again, is
\* accepted and comes back unchanged.
C11_ValidationIdempotent ==
    (mainpc # "validate" /\ diag.kind = "none") =>
        ValidatePrefix(desired_prefix) =
            [kind |-> "Ok", chars |-> << >>, prefix |-> desired_prefix]

\* C11 witness: an accepted argument that validation had to trim and to
\* lowercase
C11_Witness ==
    /\ mainpc = "threads"
    /\ Len(desired_prefix) >= 2
    /\ Len(raw_vanity_name) > Len(desired_prefix)
    /\ \E i \in 1..Len(desired_prefix) : desired_prefix[i] \notin
           { raw_vanity_name[n] : n \in 1..Len(raw_vanity_name) }

\* C12: the total main computes is the final counter plus only the winner's
\* unpublished attempts: its local count less the batches it already added.
C12_TotalAddsUnpublished ==
    (SearchCompleted /\ found_keypair # 0) =>
        total_attempts =
            attempts + (found_thread_attempts
                        - BATCH_SIZE * (found_thread_attempts \div BATCH_SIZE))

\* C13: when two or more workers drew a matching key, the reported result is
\* that of the worker that changed the flag from false to true.
C13_FirstSetterWins ==
    (SearchCompleted /\ match_draws >= 2) =>
        /\ first_setter \in ThreadIds
        /\ found_keypair = ret[first_setter].keypair
        /\ result_pubkey = ret[first_setter].pubky
        /\ found_thread_attempts = ret[first_setter].thread_attempts

\* C14: once the flag is true a worker draws at most one more key, the one of
\* the iteration it is in, and a worker that reads the flag true at the head
\* of the loop draws nothing: with the flag set, only a thread inside an
\* iteration draws, it draws one key, and no thread is inside an iteration
\* after a step unless it was there before and has not drawn.
C14_AtMostOneLateDraw ==
    [][found =>
          \A w \in ThreadIds :
              /\ drawn'[w] # drawn[w] =>
                    (wpc[w] = "body" /\ drawn'[w] = drawn[w] + 1)
              /\ wpc'[w] = "body" =>
                    (wpc[w] = "body" /\ drawn'[w] = drawn[w])]_vars

\* C14 witness: the flag is set while another worker, which has drawn keys
\* before, is inside an iteration
C14_Witness ==
    /\ found
    /\ \E w \in ThreadIds : wpc[w] = "body" /\ drawn[w] >= 1 /\ w # first_setter

\* batches thread w has published, by the keys it has drawn
PublishedBy == [w \in ThreadIds |-> BATCH_SIZE * (drawn[w] \div BATCH_SIZE)]

\* C15: the shared counter is the sum of the full batches of every worker, so
\* it never exceeds the keys drawn and lags them by less than a batch per
\* worker; it never decreases, and every change adds exactly one batch.
C15_CounterIsPublishedBatches ==
    /\ [](/\ attempts = SumOver(PublishedBy, ThreadIds)
          /\ attempts =< TrueSamples
          /\ TrueSamples - attempts =< (BATCH_SIZE - 1) * Cardinality(Spawned))
    /\ [][attempts' = attempts \/ attempts' = attempts + BATCH_SIZE]_vars

\* C15 witness: two workers have drawn keys and one of them has published a
\* batch
C15_Witness ==
    /\ attempts = BATCH_SIZE
    /\ \A w \in ThreadIds : drawn[w] >= 1
    /\ Cardinality(ThreadIds) >= 2

\* C16: main reads the counter and fixes the result only when every spawned
\* worker has ended, and after that read neither the counter nor the flag nor
\* the result changes.
C16_TotalReadAfterJoin ==
    /\ [](SearchCompleted =>
             /\ Len(handles) = num_threads /\ joined = num_threads
             /\ \A w \in Spawned : wpc[w] = "done"
             /\ total_attempts = attempts + found_thread_attempts)
    /\ [][SearchCompleted =>
             /\ attempts' = attempts /\ found' = found
             /\ total_attempts' = total_attempts
             /\ found_keypair' = found_keypair
             /\ result_pubkey' = result_pubkey
             /\ result_secret_key' = result_secret_key]_vars

\* C16 witness: main has read the counter after two workers ended, one of
\* which had published a batch
C16_Witness ==
    /\ mainpc = "report" /\ num_threads = 2
    /\ attempts >= BATCH_SIZE
    /\ total_attempts >= attempts

\* C17: main spawns exactly num_threads workers with the thread ids
\* 0..num_threads-1, each once, and every worker counts from 0: its local
\* count is the number of keys it has drawn.
C17_SpawnsEachIdOnce ==
    /\ \A i \in 1..Len(handles) : handles[i] = i - 1
    /\ Spawned = { w \in ThreadIds : w < Len(handles) }
    /\ Len(handles) =< num_threads
    /\ (mainpc = "join" \/ SearchCompleted) => Len(handles) = num_threads
    /\ \A w \in ThreadIds : local_attempts[w] = drawn[w]
    /\ \A w \in ThreadIds : wpc[w] = "unspawned" => drawn[w] = 0

\* C17 witness: two workers were asked for and two are running, each with
\* keys drawn
C17_Witness ==
    /\ mainpc = "join" /\ num_threads = 2 /\ handles = << 0, 1 >>
    /\ \A w \in ThreadIds : local_attempts[w] >= 1

\* the result main holds is, field by field, what worker w returned
HeldFrom(w) ==
    /\ ret[w].some
    /\ result_pubkey = ret[w].pubky
    /\ result_secret_key = ret[w].secret_key_hex
    /\ found_keypair = ret[w].keypair
    /\ found_thread_attempts = ret[w].thread_attempts
    /\ SearchCompleted => total_attempts = attempts + ret[w].thread_attempts
    /\ report.kind = "found" =>
          /\ report.pubkey = ret[w].pubky
          /\ report.secret_key = ret[w].secret_key_hex
          /\ report.total = attempts + ret[w].thread_attempts
    /\ recovery_file.written => recovery_file.bytes.keypair = ret[w].keypair

\* C18: the public key, the secret key, the keypair given to the recovery
\* file and the attempt count main holds and reports were all returned by one
\* and the same worker, also when several workers returned a result.
C18_ResultFromOneWorker ==
    (found_keypair # 0 \/ result_pubkey # << >> \/ report.kind = "found"
        \/ recovery_file.written) =>
        \E w \in ThreadIds : HeldFrom(w)

\* C18 witness: two workers returned different keys and the recovery file of
\* the reported one is written
C18_Witness ==
    /\ Cardinality(Returned) = 2
    /\ \A v, w \in Returned : v # w => ret[v].keypair # ret[w].keypair
    /\ report.kind = "found" /\ recovery_file.written

====
